---- MODULE Spec2Model ----
(***************************************************************************)
(* PyOxidizer: the Starlark evaluation context (pyoxidizer/src/starlark/    *)
(* eval.rs) and the embedded interpreter configuration (pyembed/src/        *)
(* config.rs).                                                              *)
(*                                                                          *)
(* Spec    : one EvaluationContext, from evaluate_file to the build and run *)
(*           calls made on it.                                              *)
(* SpecCfg : OxidizedPythonInterpreterConfig::resolve applied to builders  *)
(*           drawn from bounded sets.                                       *)
(* SpecSteps: one build_resolved_target call followed statement by         *)
(*           statement, with attempts at a second build in between.         *)
(* SpecArgv: resolve_sys_argv and resolve_sys_argvb applied to builders and *)
(*           process arguments drawn from bounded sets.                     *)
(***************************************************************************)
EXTENDS Integers, Sequences, FiniteSets, TLC

VARIABLES
    pc,          \* position of the caller: "start", "evaluating", "ready", "failed"
    context,     \* the EnvironmentContext value held by the Starlark environment
    diagnostic,  \* what evaluate_file returned on failure: its Diagnostic's origin
    logged,      \* number of diagnostics written to the logger (slog::error!)
    first_built, \* per target name: the ResolvedTarget its first successful build returned
    last,        \* the last call made on the EvaluationContext and what it did
    cfg,         \* an OxidizedPythonInterpreterConfig builder and its environment
    resolved,    \* what resolve() returned for cfg
    sys_argv,    \* what resolve_sys_argv() and resolve_sys_argvb() returned for cfg
    building,    \* a build_resolved_target call followed statement by statement
    script       \* what the script did so far: the names it registered, in order,
                 \* and the name it last marked default (None when it marked none)

vars == <<pc, context, diagnostic, logged, first_built, last, cfg, resolved, sys_argv, building, script>>

(***************************************************************************)
(* Bounds                                                                   *)
(***************************************************************************)
\* distinct artifacts a handler may produce, for each run mode
MaxArtifacts == 1
\* entries of interpreter_config.module_search_paths
MaxPaths == 2
\* length of an argument vector of a configuration
MaxArgs == 2

(***************************************************************************)
(* Values                                                                   *)
(***************************************************************************)
None == "None"

\* names a script registers, and names a caller may ask for
TargetNames == {"a", "b"}
QueryNames == TargetNames \cup {"nonexistent"}

\* get_type() of a value bound to a target; "string" has no build handler
HandledTypes == {"FileManifest", "PythonExecutable", "PythonEmbeddedResources"}
ValueTypes == HandledTypes \cup {"string"}

\* the values the scripts bind to each name
BindInputs == [a |-> ValueTypes, b |-> {"PythonExecutable", "string"}]

\* ResolvedTarget: run_mode "None" has no run entrypoint, "Path" has one
NoArtifact == [id |-> 0, run_mode |-> "None"]
Artifacts == [id : 1..MaxArtifacts, run_mode : {"None", "Path"}]

\* Result<ResolvedTarget> / Result<()>; an error is its message, without the
\* target name the message is formatted with
Ok(art) == [ok |-> TRUE, err |-> "", art |-> art]
Err(msg) == [ok |-> FALSE, err |-> msg, art |-> NoArtifact]

\* Option<Vec<String>> given to EvaluationContext::new as resolve_targets
ResolveTargetsInputs == {<<None>>, <<"b", "a">>}
IsNone(l) == l = <<None>>

\* The record of a call: the operation and its argument, its Result, the Result
\* of the build_resolved_target it made, whether a build handler was invoked,
\* what create_dir_all did ("none" when not called, "ok", "failed"), what the
\* run entrypoint did ("none" when not invoked, "ok", "failed"), whether the
\* call before it was a build of the same target that failed on create_dir_all,
\* whether the target had a cached artifact when the call began, the names
\* whose registry entry the call changed, whether it left the names, their
\* order, the default target and the requested list as they were, and the list
\* returned by targets_to_resolve.
NoCall == [op |-> "none", target |-> "", result |-> Ok(NoArtifact),
           build |-> Ok(NoArtifact), handler |-> FALSE, io |-> "none",
           ran |-> "none", after_io_error |-> FALSE, was_built |-> FALSE,
           touched |-> {}, same_registry |-> TRUE, list |-> <<>>]

\* BuildTarget; Absent stands for "no entry under this name"
Absent == [registered |-> FALSE, resolved_value |-> None, built_target |-> NoArtifact]

NoScript == [names |-> <<>>, marked |-> None]

\* No build under way.  at is the statement a build has reached, holders the
\* number of exclusive views of the context that are live, target, value and
\* art what the build holds, result what the last build returned; nested tells
\* of the last attempt at a second build made while one was under way: where
\* the first one was, what the attempt returned, whether it got a view,
\* whether it invoked a handler and whether it changed the context.
NoNested == [at |-> "none", result |-> Ok(NoArtifact), got_view |-> FALSE,
             handler |-> FALSE, changed |-> FALSE]
Idle == [at |-> "idle", holders |-> 0, target |-> "", value |-> None, art |-> NoArtifact,
         result |-> Ok(NoArtifact), nested |-> NoNested]

EmptyContext == [targets |-> [t \in TargetNames |-> Absent], order |-> <<>>,
                 default_target |-> None, resolve_targets |-> <<None>>]

(***************************************************************************)
(* EnvironmentContext (crate starlark_dialect_build_targets): the target    *)
(* registry the script fills and the resolver reads.                        *)
(***************************************************************************)
get_target(ctx, target) ==
    IF target \in DOMAIN ctx.targets /\ ctx.targets[target].registered
    THEN ctx.targets[target]
    ELSE Absent

\* register a name; the first registered name is the default until a later
\* registration is marked default
register_target(ctx, name, default) ==
    [ctx EXCEPT
        !.targets[name] = [registered |-> TRUE, resolved_value |-> None,
                           built_target |-> NoArtifact],
        !.order = IF get_target(ctx, name).registered THEN @ ELSE Append(@, name),
        !.default_target = IF default \/ @ = None THEN name ELSE @]

\* bind a concrete value to a registered name (Unresolved -> Resolved)
bind_resolved_value(ctx, name, value) ==
    [ctx EXCEPT !.targets[name].resolved_value = value]

env_default_target(ctx) == ctx.default_target

\* EnvironmentContext::targets: the mapping from name to target, which keeps
\* the order of insertion; its keys are the names in the order of registration
M_env_targets_sorted(ctx) ==
    SelectSeq(<<"a", "b">>, LAMBDA n : get_target(ctx, n).registered)

env_targets(ctx) == ctx.order

env_targets_to_resolve(ctx) ==
    IF ~IsNone(ctx.resolve_targets) THEN ctx.resolve_targets
    ELSE IF ctx.default_target # None THEN <<ctx.default_target>>
    ELSE <<>>

\* ResolvedTarget::run: the run entrypoint when there is one, with its outcome
\* runOk; ran tells what the entrypoint did
resolved_target_run(art, runOk) ==
    IF art.run_mode = "None" THEN [result |-> Err("not runnable"), ran |-> "none"]
    ELSE IF runOk THEN [result |-> Ok(NoArtifact), ran |-> "ok"]
    ELSE [result |-> Err("run failed"), ran |-> "failed"]

(***************************************************************************)
(* EvaluationContext                                                        *)
(***************************************************************************)
default_target(ctx) == env_default_target(ctx)

M_target_names_to_resolve(ctx) == env_targets_to_resolve(ctx)

target_names(ctx) == env_targets(ctx)

\* lines 98-106.  Result<Vec<String>>: always Ok around what the context returns
M_targets_to_resolve_nonempty(ctx) ==
    IF env_targets_to_resolve(ctx) = <<>>
    THEN [ok |-> FALSE, err |-> "no default target", list |-> <<>>]
    ELSE [ok |-> TRUE, err |-> "", list |-> env_targets_to_resolve(ctx)]

targets_to_resolve(ctx) == [ok |-> TRUE, err |-> "", list |-> env_targets_to_resolve(ctx)]

\* Outcomes of asking the context value for its exclusive view (downcast_mut)
\* while a shared view of it is live.  The value cell that decides belongs to
\* the starlark crate: every outcome is admitted.
\* what lines 109-113 can meet: no context value in the environment (109), the
\* view granted, the conflicting borrow reported in downcast_mut's Result
\* (112) or by a panic that unwinds the call, a value of another type (113)
ViewAnswers == {"no context", "granted", "refused", "panic", "incorrect type"}

\* the answers met on a context made by EvaluationContext::new (lines 36-63),
\* which puts the context value, of its type, in the environment
ViewOutcomes == {"granted", "refused", "panic"}

\* what the value cell of the context answers to downcast_mut when holders
\* exclusive views of it are live: a checked borrow grants one at a time
cell_answers(holders) ==
    IF holders = 0 THEN {"granted"} ELSE ViewOutcomes \ {"granted"}

\* lines 109-113: the exclusive view of the context
exclusive_view(view) ==
    CASE view = "granted" -> [go |-> TRUE, result |-> Ok(NoArtifact)]
      [] view = "no context" ->
            [go |-> FALSE, result |-> Err("could not obtain build targets context")]
      [] view = "refused" -> [go |-> FALSE, result |-> Err("unable to obtain mutable context")]
      [] view = "incorrect type" -> [go |-> FALSE, result |-> Err("context has incorrect type")]
      [] OTHER -> [go |-> FALSE, result |-> Err("panic: already borrowed")]

\* lines 115-127: the cached artifact, the bound value, or an error
M_lookup_no_memo(ctx, target) ==
    LET t == get_target(ctx, target) IN
    IF ~t.registered THEN [go |-> FALSE, result |-> Err("target is not registered"), value |-> None]
    ELSE IF t.resolved_value # None THEN [go |-> TRUE, result |-> Ok(NoArtifact), value |-> t.resolved_value]
    ELSE [go |-> FALSE, result |-> Err("target is not resolved"), value |-> None]

M_lookup_unregistered(ctx, target) ==
    LET t == get_target(ctx, target) IN
    IF t.built_target # NoArtifact THEN [go |-> FALSE, result |-> Ok(t.built_target), value |-> None]
    ELSE IF t.resolved_value # None THEN [go |-> TRUE, result |-> Ok(NoArtifact), value |-> t.resolved_value]
    ELSE [go |-> FALSE, result |-> Err("target is not resolved"), value |-> None]

M_lookup_unresolved(ctx, target) ==
    LET t == get_target(ctx, target) IN
    IF ~t.registered THEN [go |-> FALSE, result |-> Err("target is not registered"), value |-> None]
    ELSE IF t.built_target # NoArtifact THEN [go |-> FALSE, result |-> Ok(t.built_target), value |-> None]
    ELSE [go |-> TRUE, result |-> Ok(NoArtifact), value |-> t.resolved_value]

lookup(ctx, target) ==
    LET t == get_target(ctx, target) IN
    IF ~t.registered THEN [go |-> FALSE, result |-> Err("target is not registered"), value |-> None]
    ELSE IF t.built_target # NoArtifact THEN [go |-> FALSE, result |-> Ok(t.built_target), value |-> None]
    ELSE IF t.resolved_value # None THEN [go |-> TRUE, result |-> Ok(NoArtifact), value |-> t.resolved_value]
    ELSE [go |-> FALSE, result |-> Err("target is not resolved"), value |-> None]

\* lines 134-144: create_dir_all on the output path; fsOk is what the file
\* system answers
M_create_output_path_unchecked(fsOk) ==
    [go |-> TRUE, result |-> Ok(NoArtifact), io |-> IF fsOk THEN "ok" ELSE "failed"]

create_output_path(fsOk) ==
    IF fsOk THEN [go |-> TRUE, result |-> Ok(NoArtifact), io |-> "ok"]
    ELSE [go |-> FALSE, result |-> Err("creating output path"), io |-> "failed"]

\* lines 156-173: dispatch on get_type(); cast is the outcome of downcast_mut on
\* the bound value (its type is the one get_type() named, so the cast itself
\* cannot be invalid), built what the handler returns when it is invoked
CastOutcomes == {"ok", "object isn't mutable"}
HandlerResults == {Err("build failed")} \cup {Ok(a) : a \in Artifacts}

M_dispatch_any_type(value, cast, built) ==
    IF cast # "ok" THEN [result |-> Err(cast), handler |-> FALSE]
    ELSE [result |-> built, handler |-> TRUE]

dispatch(value, cast, built) ==
    IF value \in HandledTypes
    THEN IF cast # "ok" THEN [result |-> Err(cast), handler |-> FALSE]
         ELSE [result |-> built, handler |-> TRUE]
    ELSE [result |-> Err("could not determine type of target"), handler |-> FALSE]

\* line 175: cache the built artifact on the target
M_store_built_only(ctx, target, art) ==
    [ctx EXCEPT !.targets = [t \in DOMAIN @ |->
        [@[t] EXCEPT !.built_target = IF t = target THEN art ELSE NoArtifact]]]

M_store_built_default(ctx, target, art) ==
    [ctx EXCEPT !.targets[target].built_target = art, !.default_target = target]

store_built(ctx, target, art) ==
    [ctx EXCEPT !.targets[target].built_target = art]

\* lines 108-178
M_build_resolved_target_caches_early(ctx, target, view, fsOk, cast, built) ==
    LET x == exclusive_view(view)
        l == lookup(ctx, target)
        d == create_output_path(fsOk)
        h == dispatch(l.value, cast, built)
        early == store_built(ctx, target, [id |-> 1, run_mode |-> "None"])
        out(r, c, io, hd) == [result |-> r, context |-> c, io |-> io, handler |-> hd]
    IN  IF ~x.go THEN out(x.result, ctx, "none", FALSE)
        ELSE IF ~l.go THEN out(l.result, ctx, "none", FALSE)
        ELSE IF ~d.go THEN out(d.result, ctx, d.io, FALSE)
        ELSE IF ~h.result.ok THEN out(h.result, early, d.io, h.handler)
        ELSE out(h.result, store_built(ctx, target, h.result.art), d.io, h.handler)

\* lines 108-178.  Returns the Result, the context afterwards, what
\* create_dir_all did and whether a handler was invoked.
build_resolved_target(ctx, target, view, fsOk, cast, built) ==
    LET x == exclusive_view(view)
        l == lookup(ctx, target)
        d == create_output_path(fsOk)
        h == dispatch(l.value, cast, built)
        out(r, c, io, hd) == [result |-> r, context |-> c, io |-> io, handler |-> hd]
    IN  IF ~x.go THEN out(x.result, ctx, "none", FALSE)
        ELSE IF ~l.go THEN out(l.result, ctx, "none", FALSE)
        ELSE IF ~d.go THEN out(d.result, ctx, d.io, FALSE)
        ELSE IF ~h.result.ok THEN out(h.result, ctx, d.io, h.handler)
        ELSE out(h.result, store_built(ctx, target, h.result.art), d.io, h.handler)

\* lines 182-184: what run_resolved_target does with the build's outcome b
M_run_after_build_rewrap(b, runOk) ==
    IF ~b.result.ok
    THEN [result |-> Err("unable to run target"), build |-> b.result, context |-> b.context,
          io |-> b.io, handler |-> b.handler, ran |-> "none"]
    ELSE LET r == resolved_target_run(b.result.art, runOk)
         IN  [result |-> r.result, build |-> b.result, context |-> b.context,
              io |-> b.io, handler |-> b.handler, ran |-> r.ran]

M_run_after_build_swallow(b, runOk) ==
    IF ~b.result.ok
    THEN [result |-> b.result, build |-> b.result, context |-> b.context,
          io |-> b.io, handler |-> b.handler, ran |-> "none"]
    ELSE LET r == resolved_target_run(b.result.art, runOk)
         IN  [result |-> Ok(NoArtifact), build |-> b.result, context |-> b.context,
              io |-> b.io, handler |-> b.handler, ran |-> r.ran]

run_after_build(b, runOk) ==
    IF ~b.result.ok
    THEN [result |-> b.result, build |-> b.result, context |-> b.context,
          io |-> b.io, handler |-> b.handler, ran |-> "none"]
    ELSE LET r == resolved_target_run(b.result.art, runOk)
         IN  [result |-> r.result, build |-> b.result, context |-> b.context,
              io |-> b.io, handler |-> b.handler, ran |-> r.ran]

\* lines 181-185
run_resolved_target(ctx, target, view, fsOk, cast, built, runOk) ==
    run_after_build(build_resolved_target(ctx, target, view, fsOk, cast, built), runOk)

\* lines 193-199: the target run_target runs, None when there is none
select_target(ctx, target) ==
    IF target # None THEN target
    ELSE IF env_default_target(ctx) # None THEN env_default_target(ctx)
    ELSE None

\* lines 187-202.  The shared view taken at lines 189-191 is live until the
\* function returns, so the exclusive view asked for by the nested build at
\* lines 110-112 meets it: view is what the value cell answers.
run_target(ctx, target, view, fsOk, cast, built, runOk) ==
    LET t == select_target(ctx, target) IN
    IF t = None
    THEN [result |-> Err("unable to determine target to run"), build |-> Ok(NoArtifact),
          context |-> ctx, io |-> "none", handler |-> FALSE, ran |-> "none"]
    ELSE run_resolved_target(ctx, t, view, fsOk, cast, built, runOk)

(***************************************************************************)
(* OxidizedPythonInterpreterConfig (pyembed/src/config.rs).  A path is the   *)
(* sequence of its characters; "xFF" is a byte that is no valid UTF-8 and    *)
(* "uFFFD" the replacement character.                                        *)
(***************************************************************************)
Some(x) == [some |-> TRUE, v |-> x]
Nothing == [some |-> FALSE, v |-> <<>>]

Token == <<"$", "O", "R", "I", "G", "I", "N">>

\* Path::display().to_string(): bytes that are no valid UTF-8 come out as U+FFFD
display(p) == [i \in 1..Len(p) |-> IF p[i] = "xFF" THEN "uFFFD" ELSE p[i]]

\* str::replace: the matches of from, found left to right, replaced by to
RECURSIVE replace(_, _, _)
replace(s, from, to) ==
    IF Len(s) < Len(from) THEN s
    ELSE IF SubSeq(s, 1, Len(from)) = from
    THEN to \o replace(SubSeq(s, Len(from) + 1, Len(s)), from, to)
    ELSE <<s[1]>> \o replace(Tail(s), from, to)

\* Path::components: a component is a maximal run of characters other than
\* the separator; component_starts(p) is where the components of p begin and
\* component_end(p, i) where the one beginning at i ends.  Empty components
\* (repeated or trailing separators) and "." components are dropped, but for
\* a "." the path begins with
component_end(p, i) ==
    CHOOSE j \in i..Len(p) :
        /\ \A k \in i..j : p[k] # "/"
        /\ j = Len(p) \/ p[j + 1] = "/"

component_starts(p) ==
    {i \in 1..Len(p) :
        /\ p[i] # "/"
        /\ i = 1 \/ p[i - 1] = "/"
        /\ ~(i # 1 /\ p[i] = "." /\ component_end(p, i) = i)}

\* Path::parent: the path without its last component, None when the last
\* component is the root or there is none; what is left ends with its own last
\* component, and is the root or the empty path when it has none
parent(p) ==
    LET starts == component_starts(p)
        last_start == CHOOSE i \in starts : \A j \in starts : j <= i
        rest == starts \ {last_start}
        kept == CHOOSE i \in rest : \A j \in rest : j <= i
    IN  IF starts = {} THEN Nothing
        ELSE IF rest # {} THEN Some(SubSeq(p, 1, component_end(p, kept)))
        ELSE IF p[1] = "/" THEN Some(<<"/">>)
        ELSE Some(<<>>)

\* lines 221-223 and 230-235: one path with $ORIGIN expanded
expand_origin(p, origin_string) == replace(display(p), Token, origin_string)

\* lines 201-205: the executable, and the number of calls of
\* std::env::current_exe() it took; current_exe is what that call answers
M_resolve_exe_always_lookup(self, current_exe) ==
    IF ~current_exe.some THEN [exe |-> Nothing, lookups |-> 1]
    ELSE IF self.exe.some THEN [exe |-> self.exe, lookups |-> 1]
    ELSE [exe |-> current_exe, lookups |-> 1]

resolve_exe(self, current_exe) ==
    IF self.exe.some THEN [exe |-> self.exe, lookups |-> 0]
    ELSE [exe |-> current_exe, lookups |-> 1]

\* lines 207-213: the origin, None when the executable has no parent
resolve_origin(self, exe) ==
    IF self.origin.some THEN self.origin ELSE parent(exe.v)

\* lines 215-251: the resolved configuration built around exe and origin
M_resolved_config_keep_unset(self, exe, origin) ==
    LET origin_string == display(origin.v)
    IN  [self EXCEPT
            !.interpreter_config.module_search_paths =
                IF @.some THEN Some([i \in 1..Len(@.v) |-> expand_origin(@.v[i], origin_string)])
                ELSE Nothing,
            !.tcl_library = IF @.some THEN Some(expand_origin(@.v, origin_string)) ELSE Nothing]

M_resolved_config_of_default(self, exe, origin) ==
    LET origin_string == display(origin.v)
    IN  [exe |-> exe,
         origin |-> origin,
         interpreter_config |->
            [profile |-> "Python", argv |-> Nothing,
             module_search_paths |->
                IF self.interpreter_config.module_search_paths.some
                THEN Some([i \in 1..Len(self.interpreter_config.module_search_paths.v) |->
                            expand_origin(self.interpreter_config.module_search_paths.v[i],
                                          origin_string)])
                ELSE Nothing],
         raw_allocator |-> Nothing,
         set_missing_path_configuration |-> TRUE,
         oxidized_importer |-> FALSE,
         filesystem_importer |-> TRUE,
         packed_resources |-> <<>>,
         extra_extension_modules |-> Nothing,
         argv |-> Nothing,
         argvb |-> FALSE,
         sys_frozen |-> FALSE,
         sys_meipass |-> FALSE,
         terminfo_resolution |-> "Dynamic",
         tcl_library |-> IF self.tcl_library.some
                         THEN Some(expand_origin(self.tcl_library.v, origin_string))
                         ELSE Nothing,
         write_modules_directory_env |-> Nothing]

resolved_config(self, exe, origin) ==
    LET origin_string == display(origin.v)
        module_search_paths ==
            IF self.interpreter_config.module_search_paths.some
            THEN Some([i \in 1..Len(self.interpreter_config.module_search_paths.v) |->
                        expand_origin(self.interpreter_config.module_search_paths.v[i],
                                      origin_string)])
            ELSE Nothing
        tcl_library ==
            IF self.tcl_library.some
            THEN Some(expand_origin(self.tcl_library.v, origin_string))
            ELSE Nothing
    IN  [self EXCEPT !.exe = exe, !.origin = origin,
                     !.interpreter_config.module_search_paths = module_search_paths,
                     !.tcl_library = tcl_library]

\* lines 200-252.  On an error there is no configuration: inner is then the
\* builder that was consumed.
resolve(self, current_exe) ==
    LET e == resolve_exe(self, current_exe)
        o == IF e.exe.some THEN resolve_origin(self, e.exe) ELSE Nothing
    IN  IF ~e.exe.some
        THEN [state |-> "err", err |-> "could not obtain current executable", inner |-> self,
              lookups |-> e.lookups]
        ELSE IF ~o.some
        THEN [state |-> "err", err |-> "unable to obtain current executable parent directory",
              inner |-> self, lookups |-> e.lookups]
        ELSE [state |-> "ok", err |-> "", inner |-> resolved_config(self, e.exe, o),
              lookups |-> e.lookups]

\* lines 295-303: TryFrom
try_from(value, current_exe) == resolve(value, current_exe)

\* lines 305-318: the accessors of the resolved configuration; expect() panics
\* on None
Panic == <<"panic">>
exe(r) == IF r.inner.exe.some THEN r.inner.exe.v ELSE Panic
origin(r) == IF r.inner.origin.some THEN r.inner.origin.v ELSE Panic

\* lines 260-268; args is what std::env::args_os() yields
M_resolve_sys_argv_builder_first(self, args) ==
    IF self.argv.some THEN Some(self.argv.v)
    ELSE IF self.interpreter_config.argv.some THEN Nothing
    ELSE Some(args)

resolve_sys_argv(self, args) ==
    IF self.interpreter_config.argv.some THEN Nothing
    ELSE IF self.argv.some THEN Some(self.argv.v)
    ELSE Some(args)

\* lines 271-279
M_resolve_sys_argvb_skips_builder(self, args) ==
    IF self.interpreter_config.argv.some THEN self.interpreter_config.argv.v
    ELSE args

resolve_sys_argvb(self, args) ==
    IF self.interpreter_config.argv.some THEN self.interpreter_config.argv.v
    ELSE IF self.argv.some THEN self.argv.v
    ELSE args

\* lines 172-196: Default
DefaultConfig ==
    [exe |-> Nothing,
     origin |-> Nothing,
     interpreter_config |-> [profile |-> "Python", argv |-> Nothing,
                             module_search_paths |-> Nothing],
     raw_allocator |-> Nothing,
     set_missing_path_configuration |-> TRUE,
     oxidized_importer |-> FALSE,
     filesystem_importer |-> TRUE,
     packed_resources |-> <<>>,
     extra_extension_modules |-> Nothing,
     argv |-> Nothing,
     argvb |-> FALSE,
     sys_frozen |-> FALSE,
     sys_meipass |-> FALSE,
     terminfo_resolution |-> "Dynamic",
     tcl_library |-> Nothing,
     write_modules_directory_env |-> Nothing]

\* lines 60-170: a builder with every field away from its default
CustomConfig ==
    [exe |-> Nothing,
     origin |-> Nothing,
     interpreter_config |-> [profile |-> "Isolated", argv |-> Some(<<"a">>),
                             module_search_paths |-> Nothing],
     raw_allocator |-> Some(<<"Jemalloc">>),
     set_missing_path_configuration |-> FALSE,
     oxidized_importer |-> TRUE,
     filesystem_importer |-> FALSE,
     packed_resources |-> <<"resources">>,
     extra_extension_modules |-> Some(<<"module">>),
     argv |-> Some(<<"b">>),
     argvb |-> TRUE,
     sys_frozen |-> TRUE,
     sys_meipass |-> TRUE,
     terminfo_resolution |-> "Static",
     tcl_library |-> Nothing,
     write_modules_directory_env |-> Some(<<"ENV">>)]

\* the fields resolve() passes through
PassedFields == DOMAIN DefaultConfig \ {"exe", "origin", "interpreter_config", "tcl_library"}
PassedInterpreterFields == {"profile", "argv"}

\* the builders and environments resolve() is applied to
ExeInputs == {Nothing, Some(<<"/", "o", "/", "e">>), Some(<<"e">>), Some(<<"/">>),
              Some(<<"/", "o", "/", ".", "/", "e">>), Some(<<"/", ".">>)}
OriginInputs == {Nothing, Some(<<"/", "o">>), Some(<<>>)}
CurrentExeInputs == {Nothing, Some(<<"/", "a", "/", "e">>), Some(<<"/">>)}
PathInputs ==
    {Token \o <<"/", "l">>,
     Token \o <<"/", ".", ".", "/", "x">>,
     <<"l">>,
     Token \o Token,
     <<"x", "$", "O", "R", "I", "G", "I">>,
     <<"$">> \o Token \o <<"N">>,
     <<"l", "xFF">>}
SearchPathInputs ==
    {Token \o <<"/", "l">>, <<"l">>, <<"x">> \o Token \o <<"/">> \o Token, <<"xFF", "/", "l">>}
SearchPathLists == UNION {[1..n -> SearchPathInputs] : n \in 0..MaxPaths}
RestInputs == {DefaultConfig, CustomConfig}

\* the argument vectors of the two argv fields, and of the live process
ArgVectors == UNION {[1..n -> {"a", "b"}] : n \in 0..MaxArgs}
ArgvInputs == {Nothing} \cup {Some(v) : v \in ArgVectors}
ArgsInputs == {<<"p">>, <<"p", "b">>}

NoEnv == [current_exe |-> Nothing, args |-> <<>>]
Unresolved == [state |-> "builder", err |-> "", inner |-> DefaultConfig, lookups |-> 0]
\* repeated: a query was made a second time; repeatable: every query made again
\* returned what it had returned before
NotQueried == [argv |-> [asked |-> FALSE, value |-> Nothing],
               argvb |-> [asked |-> FALSE, value |-> <<>>],
               repeated |-> FALSE, repeatable |-> TRUE]

(***************************************************************************)
(* The run of one evaluation                                                *)
(***************************************************************************)

InitBuild ==
    /\ pc = "start"
    /\ context = EmptyContext
    /\ diagnostic = "none"
    /\ logged = 0
    /\ first_built = [t \in TargetNames |-> NoArtifact]
    /\ last = NoCall
    /\ script = NoScript
    /\ building = Idle

Init ==
    /\ InitBuild
    /\ cfg = [builder |-> DefaultConfig, env |-> NoEnv]
    /\ resolved = Unresolved
    /\ sys_argv = NotQueried

\* evaluate_file, lines 215-229: EvaluationContext::new (lines 36-63)
NewContext(rt, ok) ==
    /\ pc = "start"
    /\ IF ok
       THEN /\ pc' = "evaluating"
            /\ context' = [EmptyContext EXCEPT !.resolve_targets = rt]
            /\ UNCHANGED diagnostic
       ELSE /\ pc' = "failed"
            /\ diagnostic' = "environment"
            /\ UNCHANGED context
    /\ UNCHANGED <<logged, first_built, last, cfg, resolved, sys_argv, building, script>>

\* the script, run by eval_file (lines 233-240), registers a target
Register(name, default) ==
    /\ pc = "evaluating"
    /\ ~get_target(context, name).registered
    /\ context' = register_target(context, name, default)
    /\ script' = [names |-> Append(script.names, name),
                  marked |-> IF default THEN name ELSE script.marked]
    /\ UNCHANGED <<pc, diagnostic, logged, first_built, last, cfg, resolved, sys_argv, building>>

\* the script binds a value to a registered target
Bind(name, value) ==
    /\ pc = "evaluating"
    /\ get_target(context, name).registered
    /\ get_target(context, name).resolved_value = None
    /\ context' = bind_resolved_value(context, name, value)
    /\ UNCHANGED <<pc, diagnostic, logged, first_built, last, cfg, resolved, sys_argv, building, script>>

\* evaluate_file, lines 241-252: the script fails; the diagnostic is emitted
\* to the logger and returned
M_EvalFail_hands_context ==
    /\ pc = "evaluating"
    /\ pc' = "ready"
    /\ diagnostic' = "script"
    /\ logged' = logged + 1
    /\ UNCHANGED <<context, first_built, last, cfg, resolved, sys_argv, building, script>>

EvalFail ==
    /\ pc = "evaluating"
    /\ pc' = "failed"
    /\ diagnostic' = "script"
    /\ logged' = logged + 1
    /\ UNCHANGED <<context, first_built, last, cfg, resolved, sys_argv, building, script>>

\* evaluate_file, line 254: the script ran to its end
EvalOk ==
    /\ pc = "evaluating"
    /\ pc' = "ready"
    /\ UNCHANGED <<context, diagnostic, logged, first_built, last, cfg, resolved, sys_argv, building, script>>

\* what a call on the context leaves behind: r is the outcome record of
\* build_resolved_target / run_resolved_target / run_target, t the target built
Called(op, target, t, r) ==
    /\ pc = "ready"
    /\ context' = r.context
    /\ first_built' = [n \in TargetNames |->
            IF n = t /\ r.handler /\ r.build.ok /\ first_built[n] = NoArtifact
            THEN r.build.art ELSE first_built[n]]
    /\ last' = [op |-> op, target |-> target, result |-> r.result, build |-> r.build,
                handler |-> r.handler, io |-> r.io, ran |-> r.ran,
                after_io_error |-> /\ last.op = "build_resolved_target"
                                   /\ last.io = "failed"
                                   /\ last.target = t,
                was_built |-> get_target(context, t).built_target # NoArtifact,
                touched |-> {n \in TargetNames : r.context.targets[n] # context.targets[n]},
                same_registry |-> /\ r.context.order = context.order
                                  /\ r.context.default_target = context.default_target
                                  /\ r.context.resolve_targets = context.resolve_targets
                                  /\ DOMAIN r.context.targets = DOMAIN context.targets,
                list |-> <<>>]
    /\ UNCHANGED <<pc, diagnostic, logged, cfg, resolved, sys_argv, building, script>>

Build(target, fsOk, cast, built) ==
    LET b == build_resolved_target(context, target, "granted", fsOk, cast, built)
    IN  Called("build_resolved_target", target, target,
               [result |-> b.result, build |-> b.result, context |-> b.context,
                io |-> b.io, handler |-> b.handler, ran |-> "none"])

RunResolved(target, fsOk, cast, built, runOk) ==
    Called("run_resolved_target", target, target,
           run_resolved_target(context, target, "granted", fsOk, cast, built, runOk))

RunTarget(target, view, fsOk, cast, built, runOk) ==
    Called("run_target", target, select_target(context, target),
           run_target(context, target, view, fsOk, cast, built, runOk))

TargetsToResolve ==
    /\ pc = "ready"
    /\ last' = [NoCall EXCEPT !.op = "targets_to_resolve",
                              !.result = [ok |-> targets_to_resolve(context).ok,
                                          err |-> targets_to_resolve(context).err,
                                          art |-> NoArtifact],
                              !.list = targets_to_resolve(context).list]
    /\ UNCHANGED <<pc, context, diagnostic, logged, first_built, cfg, resolved, sys_argv, building, script>>

\* What the world answers during one build: the file system, the cast of the
\* bound value, the handler.  An answer is drawn only where it is asked for.
BuildEnvs ==
    {<<FALSE, "ok", Err("build failed")>>}
    \cup {<<TRUE, c, Err("build failed")>> : c \in CastOutcomes \ {"ok"}}
    \cup {<<TRUE, "ok", h>> : h \in HandlerResults}

\* the same, with the outcome of the run entrypoint
RunEnvs ==
    {<<e[1], e[2], e[3], TRUE>> : e \in BuildEnvs}
    \cup {<<TRUE, "ok", h, FALSE>> : h \in {Ok(a) : a \in {x \in Artifacts : x.run_mode = "Path"}}}

\* the same, with the answer of the context's value cell
\* the answers asked for by a build of target t on ctx: none when the lookup
\* settles the call, only that of the run entrypoint when a run finds t built
NotAsked == <<TRUE, "ok", Err("build failed")>>

BuildEnvsAt(ctx, t) ==
    IF t # None /\ lookup(ctx, t).go THEN BuildEnvs ELSE {NotAsked}

RunEnvsAt(ctx, t) ==
    IF t # None /\ lookup(ctx, t).go THEN RunEnvs
    ELSE {<<NotAsked[1], NotAsked[2], NotAsked[3], r>> : r \in BOOLEAN}

RunTargetEnvsAt(ctx, t) ==
    {<<"granted", e[1], e[2], e[3], e[4]>> : e \in RunEnvsAt(ctx, select_target(ctx, t))}
    \cup {<<v, NotAsked[1], NotAsked[2], NotAsked[3], TRUE>> : v \in ViewOutcomes \ {"granted"}}

Next ==
    \/ \E rt \in ResolveTargetsInputs, ok \in BOOLEAN : NewContext(rt, ok)
    \/ \E n \in TargetNames, d \in BOOLEAN : Register(n, d)
    \/ \E n \in TargetNames : \E v \in BindInputs[n] : Bind(n, v)
    \/ EvalFail
    \/ EvalOk
    \/ \E t \in QueryNames : \E e \in BuildEnvsAt(context, t) : Build(t, e[1], e[2], e[3])
    \/ \E t \in QueryNames : \E e \in RunEnvsAt(context, t) :
            RunResolved(t, e[1], e[2], e[3], e[4])
    \/ \E t \in QueryNames \cup {None} : \E e \in RunTargetEnvsAt(context, t) :
            RunTarget(t, e[1], e[2], e[3], e[4], e[5])
    \/ TargetsToResolve

Spec == Init /\ [][Next]_vars

(***************************************************************************)
(* One build_resolved_target call, statement by statement, and the attempts *)
(* at a second build made on the same context while it is under way         *)
(***************************************************************************)
\* the contexts an evaluation leaves: "a" and "b" registered, bound or not
StepContexts ==
    {bind_resolved_value(
        bind_resolved_value(
            register_target(register_target(
                [EmptyContext EXCEPT !.resolve_targets = <<None>>], "a", FALSE), "b", FALSE),
            "a", va),
        "b", vb) : va \in BindInputs["a"] \cup {None}, vb \in BindInputs["b"] \cup {None}}

InitSteps ==
    /\ pc = "ready"
    /\ context \in StepContexts
    /\ diagnostic = "none"
    /\ logged = 0
    /\ first_built = [t \in TargetNames |-> NoArtifact]
    /\ last = NoCall
    /\ script = [names |-> <<"a", "b">>, marked |-> None]
    /\ building = Idle
    /\ cfg = [builder |-> DefaultConfig, env |-> NoEnv]
    /\ resolved = Unresolved
    /\ sys_argv = NotQueried

\* the statements between the view taken at lines 109-113 and the return, where
\* the view is dropped
Window == {"held", "looked", "dir", "handler", "built"}

\* build_resolved_target returns r: its view of the context is dropped
Returns(r) ==
    /\ building' = [Idle EXCEPT !.holders = building.holders - 1, !.result = r,
                                !.nested = building.nested]
    /\ UNCHANGED <<pc, diagnostic, logged, first_built, last, cfg, resolved, sys_argv, script>>

Continues(at, value, art) ==
    /\ building' = [building EXCEPT !.at = at, !.value = value, !.art = art]
    /\ UNCHANGED <<pc, context, diagnostic, logged, first_built, last, cfg, resolved,
                   sys_argv, script>>

\* lines 108-113: a build begins and asks for the exclusive view
StepBegin(target, answer) ==
    /\ pc = "ready"
    /\ building.at = "idle"
    /\ answer \in cell_answers(building.holders)
    /\ IF exclusive_view(answer).go
       THEN /\ building' = [Idle EXCEPT !.at = "held", !.holders = building.holders + 1,
                                        !.target = target]
            /\ UNCHANGED <<pc, diagnostic, logged, first_built, last, cfg, resolved,
                           sys_argv, script>>
       ELSE Returns(exclusive_view(answer).result)
    /\ UNCHANGED context

\* lines 115-127
StepLookup ==
    /\ building.at = "held"
    /\ LET l == lookup(context, building.target)
       IN  IF l.go THEN Continues("looked", l.value, NoArtifact)
           ELSE Returns(l.result) /\ UNCHANGED context

\* lines 129-144
StepCreateDir(fsOk) ==
    /\ building.at = "looked"
    /\ LET d == create_output_path(fsOk)
       IN  IF d.go THEN Continues("dir", building.value, NoArtifact)
           ELSE Returns(d.result) /\ UNCHANGED context

\* lines 156-172: the match on the type and the cast; the handler is entered
StepDispatch(cast) ==
    /\ building.at = "dir"
    /\ LET h == dispatch(building.value, cast, Err("build failed"))
       IN  IF h.handler THEN Continues("handler", building.value, NoArtifact)
           ELSE Returns(h.result) /\ UNCHANGED context

\* lines 156-173: the handler returns
StepHandlerReturns(built) ==
    /\ building.at = "handler"
    /\ LET h == dispatch(building.value, "ok", built)
       IN  IF h.result.ok THEN Continues("built", building.value, h.result.art)
           ELSE Returns(h.result) /\ UNCHANGED context

\* lines 175-177
StepStore ==
    /\ building.at = "built"
    /\ context' = store_built(context, building.target, building.art)
    /\ Returns(Ok(building.art))

\* a second build_resolved_target on the context while the first is under way
StepNested(target, answer, fsOk, cast, built) ==
    /\ building.at \in Window
    /\ answer \in cell_answers(building.holders)
    /\ LET b == build_resolved_target(context, target, answer, fsOk, cast, built)
       IN  /\ context' = b.context
           /\ building' = [building EXCEPT !.nested =
                    [at |-> building.at, result |-> b.result,
                     got_view |-> exclusive_view(answer).go,
                     handler |-> b.handler, changed |-> b.context # context]]
    /\ UNCHANGED <<pc, diagnostic, logged, first_built, last, cfg, resolved, sys_argv, script>>

NextSteps ==
    \/ \E t \in QueryNames, v \in ViewOutcomes : StepBegin(t, v)
    \/ StepLookup
    \/ \E fsOk \in BOOLEAN : StepCreateDir(fsOk)
    \/ \E c \in CastOutcomes : StepDispatch(c)
    \/ \E h \in HandlerResults : StepHandlerReturns(h)
    \/ StepStore
    \/ \E t \in TargetNames, v \in ViewOutcomes : \E e \in BuildEnvsAt(context, t) :
            StepNested(t, v, e[1], e[2], e[3])

SpecSteps == InitSteps /\ [][NextSteps]_vars

(***************************************************************************)
(* Resolution of one configuration                                          *)
(***************************************************************************)
InitCfg ==
    /\ InitBuild
    /\ cfg \in {[builder |-> [r EXCEPT !.exe = e, !.origin = o, !.tcl_library = t,
                                       !.interpreter_config.module_search_paths = m],
                 env |-> [current_exe |-> c, args |-> <<"p">>]] :
                    r \in RestInputs, e \in ExeInputs, o \in OriginInputs,
                    t \in {Nothing} \cup {Some(p) : p \in PathInputs},
                    m \in {Nothing} \cup {Some(l) : l \in SearchPathLists},
                    c \in CurrentExeInputs}
    /\ resolved = Unresolved
    /\ sys_argv = NotQueried

\* OxidizedPythonInterpreterConfig::resolve consumes the builder
Resolve ==
    /\ resolved.state = "builder"
    /\ resolved' = resolve(cfg.builder, cfg.env.current_exe)
    /\ UNCHANGED <<pc, context, diagnostic, logged, first_built, last, cfg, sys_argv, building, script>>

\* ResolvedOxidizedPythonInterpreterConfig::try_from consumes the builder
TryFrom ==
    /\ resolved.state = "builder"
    /\ resolved' = try_from(cfg.builder, cfg.env.current_exe)
    /\ UNCHANGED <<pc, context, diagnostic, logged, first_built, last, cfg, sys_argv, building, script>>

NextCfg == Resolve \/ TryFrom

SpecCfg == InitCfg /\ [][NextCfg]_vars

(***************************************************************************)
(* The two argument queries on one configuration                            *)
(***************************************************************************)
InitArgv ==
    /\ InitBuild
    /\ cfg \in {[builder |-> [DefaultConfig EXCEPT !.interpreter_config.argv = l, !.argv = o],
                 env |-> [current_exe |-> Nothing, args |-> a]] :
                    l \in ArgvInputs, o \in ArgvInputs, a \in ArgsInputs}
    /\ resolved = Unresolved
    /\ sys_argv = NotQueried

ResolveSysArgv ==
    LET v == resolve_sys_argv(cfg.builder, cfg.env.args)
    IN  /\ sys_argv' = [sys_argv EXCEPT
                !.argv = [asked |-> TRUE, value |-> v],
                !.repeated = @ \/ sys_argv.argv.asked,
                !.repeatable = @ /\ (sys_argv.argv.asked => sys_argv.argv.value = v)]
        /\ UNCHANGED <<pc, context, diagnostic, logged, first_built, last, cfg, resolved,
                       building, script>>

ResolveSysArgvb ==
    LET v == resolve_sys_argvb(cfg.builder, cfg.env.args)
    IN  /\ sys_argv' = [sys_argv EXCEPT
                !.argvb = [asked |-> TRUE, value |-> v],
                !.repeated = @ \/ sys_argv.argvb.asked,
                !.repeatable = @ /\ (sys_argv.argvb.asked => sys_argv.argvb.value = v)]
        /\ UNCHANGED <<pc, context, diagnostic, logged, first_built, last, cfg, resolved,
                       building, script>>

NextArgv == ResolveSysArgv \/ ResolveSysArgvb

SpecArgv == InitArgv /\ [][NextArgv]_vars

(***************************************************************************)
(* Properties                                                               *)
(***************************************************************************)
Target(n) == get_target(context, n)
IsBuilt(n) == Target(n).built_target # NoArtifact
\* the target the last call built or tried to build
LastTarget == IF last.op = "run_target" THEN select_target(context, last.target) ELSE last.target
Calls == {"build_resolved_target", "run_resolved_target", "run_target"}

\* C1: once a target has been built, no later call invokes its build handler or
\* creates its output directory again, and every later build_resolved_target
\* (called directly or by run_resolved_target) returns the ResolvedTarget the
\* first successful build returned; the handler ran in the one call that found
\* the target unbuilt and left it built.
C1_IdempotentBuild ==
    /\ (last.op \in Calls /\ last.was_built) =>
            /\ ~last.handler
            /\ last.io = "none"
            /\ last.op \in {"build_resolved_target", "run_resolved_target"} =>
                    last.build = Ok(first_built[LastTarget])
            /\ last.op = "run_target" =>
                    \/ last.build = Ok(first_built[LastTarget])
                    \/ last.build.err \in {"unable to obtain mutable context",
                                           "panic: already borrowed"}
    /\ (last.op \in Calls /\ last.build.ok /\ LastTarget # None /\ ~last.was_built) =>
            /\ last.handler
            /\ last.build = Ok(first_built[LastTarget])
    /\ \A n \in TargetNames : IsBuilt(n) => Target(n).resolved_value # None

C1_Witness ==
    /\ last.op = "build_resolved_target"
    /\ last.was_built
    /\ last.result.ok
    /\ last.result.art = first_built[last.target]
    /\ ~last.handler

\* C2: a cached built artifact is never cleared or replaced: whatever call is
\* made next, on whatever target, a target that has one keeps the same one and
\* keeps its bound value.
C2_BuiltIsAbsorbing ==
    [][\A n \in TargetNames : IsBuilt(n) => get_target(context', n) = Target(n)]_vars

C2_Witness ==
    /\ last.op = "run_target"
    /\ ~last.result.ok
    /\ \E n \in TargetNames : IsBuilt(n) /\ n # LastTarget
    /\ \E n \in TargetNames : IsBuilt(n) /\ n = LastTarget

\* C3: build_resolved_target of a name that is not registered fails with "target
\* is not registered", creates no directory, invokes no handler and leaves the
\* registry unchanged.
C3_UnknownTarget ==
    (last.op = "build_resolved_target" /\ ~Target(last.target).registered) =>
        /\ last.result = Err("target is not registered")
        /\ last.io = "none"
        /\ ~last.handler
        /\ last.touched = {}
        /\ last.same_registry

C3_Witness ==
    /\ last.op = "build_resolved_target"
    /\ last.target = "nonexistent"
    /\ last.result = Err("target is not registered")
    /\ IsBuilt("a")
    /\ Target("b").registered /\ ~IsBuilt("b")

\* C4: a run whose build failed never invokes a run entrypoint and returns the
\* build's error as it is; whatever made the build fail (unknown name, no bound
\* value, create_dir_all, no handler for the type, the handler itself) is the
\* error the run returns; an entrypoint is only ever invoked on a built target.
C4_RunImpliesBuild ==
    last.op \in {"run_resolved_target", "run_target"} =>
        LET t == LastTarget
            viewError == last.build.err \in {"unable to obtain mutable context",
                                             "panic: already borrowed"}
        IN  /\ ~last.build.ok => (last.ran = "none" /\ last.result = last.build)
            /\ last.ran # "none" => (last.build.ok /\ IsBuilt(t))
            /\ (t # None /\ ~viewError) =>
                    /\ ~Target(t).registered => last.result = Err("target is not registered")
                    /\ (Target(t).registered /\ Target(t).resolved_value = None) =>
                            last.result = Err("target is not resolved")
                    /\ last.io = "failed" => last.result = Err("creating output path")
                    /\ (Target(t).registered /\ Target(t).resolved_value = "string") =>
                            /\ last.ran = "none"
                            /\ last.result.err \in {"creating output path",
                                                    "could not determine type of target"}
                    /\ (last.handler /\ ~IsBuilt(t)) => last.result = Err("build failed")

C4_Witness ==
    /\ last.op = "run_resolved_target"
    /\ last.handler
    /\ last.build = Err("build failed")
    /\ last.result = Err("build failed")
    /\ last.ran = "none"

\* C5: a build that fails on create_dir_all returns the I/O error, invokes no
\* handler and leaves the target as it was, bound and without cached artifact;
\* the same context then accepts a build of that target, which, the directory
\* created, reaches the handler and caches what the handler returns.
C5_RetryAfterIoFailure ==
    LET t == last.target IN
    /\ (last.op = "build_resolved_target" /\ last.io = "failed") =>
            /\ last.result = Err("creating output path")
            /\ ~last.handler
            /\ last.touched = {}
            /\ ~IsBuilt(t)
            /\ Target(t).resolved_value # None
            /\ pc = "ready"
            /\ Target(t).resolved_value \in HandledTypes =>
                    \A a \in Artifacts :
                        LET b == build_resolved_target(context, t, "granted", TRUE, "ok", Ok(a))
                        IN  b.result = Ok(a) /\ b.handler
    /\ (last.op = "build_resolved_target" /\ last.after_io_error /\ last.io = "ok") =>
            /\ pc = "ready"
            /\ (Target(t).resolved_value \in HandledTypes
                    /\ last.result.err # "object isn't mutable") => last.handler
            /\ last.result.ok =>
                    (last.handler /\ Target(t).built_target = last.result.art)

C5_Witness ==
    /\ last.op = "build_resolved_target"
    /\ last.after_io_error
    /\ last.io = "ok"
    /\ last.handler
    /\ last.result.ok
    /\ IsBuilt(last.target)

\* C6: build_resolved_target of a registered name with no cached artifact and no
\* bound value fails with "target is not resolved", creates no directory,
\* invokes no handler and changes nothing.
C6_UnresolvedTarget ==
    (/\ last.op = "build_resolved_target"
     /\ Target(last.target).registered
     /\ ~IsBuilt(last.target)
     /\ Target(last.target).resolved_value = None) =>
        /\ last.result = Err("target is not resolved")
        /\ last.io = "none"
        /\ ~last.handler
        /\ last.touched = {}
        /\ last.same_registry

C6_Witness ==
    /\ last.op = "build_resolved_target"
    /\ Target(last.target).registered
    /\ Target(last.target).resolved_value = None
    /\ last.result = Err("target is not resolved")

\* C7 as claimed: build_resolved_target of a registered target bound to a value
\* of a type without handler always fails with "could not determine type of
\* target", invokes no handler and caches nothing.
C7_Original ==
    (/\ last.op = "build_resolved_target"
     /\ Target(last.target).registered
     /\ Target(last.target).resolved_value \in ValueTypes \ HandledTypes) =>
        /\ last.result = Err("could not determine type of target")
        /\ ~last.handler
        /\ ~IsBuilt(last.target)

\* C7: build_resolved_target of a registered target bound to a value of a type
\* without handler fails on every attempt, invokes no handler and caches
\* nothing; the output directory is created before the type is looked at, so
\* the error is "could not determine type of target" when the directory could
\* be created and the I/O error when it could not.
C7_UnsupportedKind ==
    (/\ last.op = "build_resolved_target"
     /\ Target(last.target).registered
     /\ Target(last.target).resolved_value \in ValueTypes \ HandledTypes) =>
        /\ last.io \in {"ok", "failed"}
        /\ last.io = "ok" => last.result = Err("could not determine type of target")
        /\ last.io = "failed" => last.result = Err("creating output path")
        /\ ~last.handler
        /\ ~IsBuilt(last.target)
        /\ last.touched = {}

C7_Witness ==
    /\ last.op = "build_resolved_target"
    /\ Target(last.target).resolved_value = "string"
    /\ last.io = "ok"
    /\ last.result = Err("could not determine type of target")

\* C8 as claimed: targets_to_resolve returns the explicit list when one was
\* given, else the singleton of the default target, else fails for want of a
\* default target; it never succeeds with an empty list.
C8_Original ==
    last.op = "targets_to_resolve" =>
        /\ IF ~IsNone(context.resolve_targets)
           THEN last.result.ok /\ last.list = context.resolve_targets
           ELSE IF context.default_target # None
           THEN last.result.ok /\ last.list = <<context.default_target>>
           ELSE ~last.result.ok /\ last.result.err = "no default target"
        /\ last.result.ok => last.list # <<>>

\* C8: targets_to_resolve always succeeds: with the explicit list when one was
\* given, else with the singleton of the default target, else with the empty
\* list.
C8_TargetsToResolve ==
    last.op = "targets_to_resolve" =>
        /\ last.result.ok
        /\ IF ~IsNone(context.resolve_targets)
           THEN last.list = context.resolve_targets
           ELSE IF context.default_target # None
           THEN last.list = <<context.default_target>>
           ELSE last.list = <<>>

C8_Witness ==
    /\ last.op = "targets_to_resolve"
    /\ IsNone(context.resolve_targets)
    /\ context.default_target = None
    /\ last.result.ok
    /\ last.list = <<>>

\* C9: when its build succeeds, run_resolved_target invokes the artifact's run
\* entrypoint if it has one and returns what the entrypoint returned, success
\* or the run error; without entrypoint it fails with "not runnable"; in each
\* case the target is left built, and no later build of it invokes a handler.
C9_RunBuiltTarget ==
    (last.op = "run_resolved_target" /\ last.build.ok) =>
        LET t == last.target
            art == last.build.art
        IN  /\ IsBuilt(t) /\ Target(t).built_target = art
            /\ art.run_mode = "Path" =>
                    /\ last.ran \in {"ok", "failed"}
                    /\ last.ran = "ok" => last.result = Ok(NoArtifact)
                    /\ last.ran = "failed" => last.result = Err("run failed")
            /\ art.run_mode = "None" =>
                    /\ last.ran = "none"
                    /\ last.result = Err("not runnable")
            /\ \A e \in BuildEnvs :
                    LET b == build_resolved_target(context, t, "granted", e[1], e[2], e[3])
                    IN  ~b.handler /\ b.io = "none" /\ b.result = Ok(art)

C9_Witness ==
    /\ last.op = "run_resolved_target"
    /\ last.was_built
    /\ ~last.handler
    /\ last.ran = "failed"
    /\ last.result = Err("run failed")
    /\ IsBuilt(last.target)

\* the text of p with every occurrence of $ORIGIN replaced by o, character
\* by character: position i starts an occurrence, lies inside one, or is kept
Occurrences(p) == {i \in 1..Len(p) : i + Len(Token) - 1 <= Len(p)
                                      /\ SubSeq(p, i, i + Len(Token) - 1) = Token}

RECURSIVE TemplatedFrom(_, _, _)
TemplatedFrom(p, o, i) ==
    IF i > Len(p) THEN <<>>
    ELSE (IF i \in Occurrences(p) THEN o
          ELSE IF \E j \in Occurrences(p) : j < i /\ i < j + Len(Token) THEN <<>>
          ELSE <<p[i]>>) \o TemplatedFrom(p, o, i + 1)

Templated(p, o) == TemplatedFrom(p, o, 1)

\* C10: resolve() maps every module search path and the tcl_library to the path
\* with each $ORIGIN replaced by the text of the origin and nothing else
\* changed; a path without the token comes back as it was, an unset field stays
\* unset, the number and the order of the search paths are kept.
C10_LiteralTemplating ==
    resolved.state = "ok" =>
        LET b == cfg.builder
            r == resolved.inner
            o == display(r.origin.v)
        IN  /\ r.tcl_library.some = b.tcl_library.some
            /\ b.tcl_library.some =>
                    /\ r.tcl_library.v = Templated(b.tcl_library.v, o)
                    /\ Occurrences(b.tcl_library.v) = {} => r.tcl_library.v = b.tcl_library.v
            /\ r.interpreter_config.module_search_paths.some = b.interpreter_config.module_search_paths.some
            /\ b.interpreter_config.module_search_paths.some =>
                    /\ Len(r.interpreter_config.module_search_paths.v) = Len(b.interpreter_config.module_search_paths.v)
                    /\ \A i \in 1..Len(b.interpreter_config.module_search_paths.v) :
                            r.interpreter_config.module_search_paths.v[i] = Templated(b.interpreter_config.module_search_paths.v[i], o)

\* the same, for the paths that are valid Unicode
IsText(p) == \A i \in 1..Len(p) : p[i] # "xFF"

LiteralTemplatingOfText ==
    resolved.state = "ok" =>
        LET b == cfg.builder
            r == resolved.inner
            o == display(r.origin.v)
        IN  /\ (b.tcl_library.some /\ IsText(b.tcl_library.v)) =>
                    r.tcl_library.v = Templated(b.tcl_library.v, o)
            /\ b.interpreter_config.module_search_paths.some =>
                    \A i \in 1..Len(b.interpreter_config.module_search_paths.v) :
                        IsText(b.interpreter_config.module_search_paths.v[i]) =>
                            r.interpreter_config.module_search_paths.v[i] = Templated(b.interpreter_config.module_search_paths.v[i], o)

\* the two argv fields of the builder and the live process arguments
LowLevelArgv == cfg.builder.interpreter_config.argv
BuilderArgv == cfg.builder.argv
LiveArgs == cfg.env.args

\* C11: resolve_sys_argv() returns None when interpreter_config.argv is set,
\* else the builder's argv when set, else the live process arguments;
\* resolve_sys_argvb() returns interpreter_config.argv when set, else the
\* builder's argv when set, else the live process arguments.  With
\* interpreter_config.argv = ["a"] and argv = ["b"] they return None and ["a"];
\* with interpreter_config.argv unset and argv = ["b"], ["b"] and ["b"].
C11_ArgumentPolicy ==
    /\ sys_argv.argv.asked =>
            /\ LowLevelArgv.some => sys_argv.argv.value = Nothing
            /\ (~LowLevelArgv.some /\ BuilderArgv.some) =>
                    sys_argv.argv.value = Some(BuilderArgv.v)
            /\ (~LowLevelArgv.some /\ ~BuilderArgv.some) =>
                    sys_argv.argv.value = Some(LiveArgs)
            /\ (LowLevelArgv = Some(<<"a">>) /\ BuilderArgv = Some(<<"b">>)) =>
                    sys_argv.argv.value = Nothing
            /\ (LowLevelArgv = Nothing /\ BuilderArgv = Some(<<"b">>)) =>
                    sys_argv.argv.value = Some(<<"b">>)
    /\ sys_argv.argvb.asked =>
            /\ LowLevelArgv.some => sys_argv.argvb.value = LowLevelArgv.v
            /\ (~LowLevelArgv.some /\ BuilderArgv.some) =>
                    sys_argv.argvb.value = BuilderArgv.v
            /\ (~LowLevelArgv.some /\ ~BuilderArgv.some) =>
                    sys_argv.argvb.value = LiveArgs
            /\ (LowLevelArgv = Some(<<"a">>) /\ BuilderArgv = Some(<<"b">>)) =>
                    sys_argv.argvb.value = <<"a">>
            /\ (LowLevelArgv = Nothing /\ BuilderArgv = Some(<<"b">>)) =>
                    sys_argv.argvb.value = <<"b">>

C11_Witness ==
    /\ LowLevelArgv = Some(<<"a">>)
    /\ BuilderArgv = Some(<<"b">>)
    /\ sys_argv.argv = [asked |-> TRUE, value |-> Nothing]
    /\ sys_argv.argvb = [asked |-> TRUE, value |-> <<"a">>]

\* C12: the vector chosen for PyConfig.argv is the builder's argv whenever that
\* is Some(v), whatever interpreter_config.argv holds; with the builder's argv
\* None it is the live process arguments when interpreter_config.argv is None,
\* and interpreter_config.argv is left alone when it is Some.
C12_BuilderArgvPrecedence ==
    sys_argv.argv.asked =>
        /\ BuilderArgv.some => sys_argv.argv.value = Some(BuilderArgv.v)
        /\ (~BuilderArgv.some /\ ~LowLevelArgv.some) => sys_argv.argv.value = Some(LiveArgs)
        /\ (~BuilderArgv.some /\ LowLevelArgv.some) => sys_argv.argv.value = Nothing

\* C13: a resolved configuration has its exe and its origin, so exe() and
\* origin() do not fail, whether it came from resolve or from try_from; an exe
\* or origin set in the builder is kept; an unset exe is the current executable
\* and an unset origin the parent directory of the executable, /a for /a/e
\* and /o for /o/./e.
C13_BootstrapDefaulting ==
    resolved.state = "ok" =>
        LET b == cfg.builder
            current == cfg.env.current_exe
        IN  /\ resolved.inner.exe.some /\ exe(resolved) # Panic
            /\ resolved.inner.origin.some /\ origin(resolved) # Panic
            /\ b.exe.some => exe(resolved) = b.exe.v
            /\ b.origin.some => origin(resolved) = b.origin.v
            /\ ~b.exe.some => (current.some /\ exe(resolved) = current.v)
            /\ ~b.origin.some =>
                    /\ parent(exe(resolved)).some
                    /\ origin(resolved) = parent(exe(resolved)).v
            /\ (~b.exe.some /\ ~b.origin.some /\ current = Some(<<"/", "a", "/", "e">>)) =>
                    /\ exe(resolved) = <<"/", "a", "/", "e">>
                    /\ origin(resolved) = <<"/", "a">>
            /\ (b.exe = Some(<<"/", "o", "/", ".", "/", "e">>) /\ ~b.origin.some) =>
                    origin(resolved) = <<"/", "o">>

C13_Witness ==
    /\ resolved.state = "ok"
    /\ ~cfg.builder.exe.some
    /\ ~cfg.builder.origin.some
    /\ exe(resolved) = <<"/", "a", "/", "e">>
    /\ origin(resolved) = <<"/", "a">>

\* C14: resolve() fails with "could not obtain current executable" exactly when
\* exe is unset and the lookup fails, and with "unable to obtain current
\* executable parent directory" exactly when there is an executable (given or
\* looked up), origin is unset and the executable has no parent; the first
\* error wins over the second; the lookup is made once when exe is unset and
\* not at all when it is set; a failure yields no configuration.
C14_ResolutionFailures ==
    resolved.state # "builder" =>
        LET b == cfg.builder
            current == cfg.env.current_exe
            noExe == ~b.exe.some /\ ~current.some
            theExe == IF b.exe.some THEN b.exe.v ELSE current.v
            noParent == ~noExe /\ ~b.origin.some /\ ~parent(theExe).some
        IN  /\ resolved.state \in {"ok", "err"}
            /\ (resolved.state = "ok") = (resolved.err = "")
            /\ (resolved.err = "could not obtain current executable") = noExe
            /\ (resolved.err = "unable to obtain current executable parent directory") = noParent
            /\ (resolved.state = "err") = (noExe \/ noParent)
            /\ resolved.lookups = IF b.exe.some THEN 0 ELSE 1
            /\ (b.exe \in {Some(<<"/">>), Some(<<"/", ".">>)} /\ ~b.origin.some) =>
                    resolved.err = "unable to obtain current executable parent directory"

C14_Witness ==
    /\ resolved.state = "err"
    /\ resolved.err = "unable to obtain current executable parent directory"
    /\ ~cfg.builder.exe.some
    /\ cfg.env.current_exe = Some(<<"/">>)
    /\ resolved.lookups = 1

\* C15: in a resolved configuration every field of the builder other than exe,
\* origin, interpreter_config.module_search_paths and tcl_library has the value
\* it had in the builder.
C15_ResolutionFrame ==
    resolved.state = "ok" =>
        /\ DOMAIN resolved.inner = DOMAIN cfg.builder
        /\ DOMAIN resolved.inner.interpreter_config = DOMAIN cfg.builder.interpreter_config
        /\ \A f \in PassedFields : resolved.inner[f] = cfg.builder[f]
        /\ \A f \in PassedInterpreterFields :
                resolved.inner.interpreter_config[f] = cfg.builder.interpreter_config[f]

C15_Witness ==
    /\ resolved.state = "ok"
    /\ resolved.inner.exe # cfg.builder.exe
    /\ resolved.inner.tcl_library # cfg.builder.tcl_library
    /\ resolved.inner.interpreter_config.module_search_paths
            # cfg.builder.interpreter_config.module_search_paths
    /\ resolved.inner.argv = Some(<<"b">>)
    /\ resolved.inner.interpreter_config.argv = Some(<<"a">>)
    /\ resolved.inner.interpreter_config.profile = "Isolated"
    /\ resolved.inner.packed_resources = <<"resources">>

\* the default target a script leaves: the name it last marked default, the
\* first name it registered when it marked none
ScriptDefault ==
    IF script.marked # None THEN script.marked
    ELSE IF script.names # <<>> THEN script.names[1]
    ELSE None

\* C16: target_names() is the names the script registered, each once, in the
\* order of registration, and default_target() the name the script marked
\* default or, none marked, the first registered; build and run calls, which
\* leave the script's registrations as they are, do not change either.  After
\* registering "a" then "b" with no default marked they are ["a", "b"] and "a".
C16_ListingAndDefault ==
    pc \in {"evaluating", "ready"} =>
        /\ target_names(context) = script.names
        /\ \A i, j \in 1..Len(target_names(context)) :
                target_names(context)[i] = target_names(context)[j] => i = j
        /\ {target_names(context)[i] : i \in 1..Len(target_names(context))}
                = {n \in TargetNames : Target(n).registered}
        /\ default_target(context) = ScriptDefault
        /\ script = [names |-> <<"a", "b">>, marked |-> None] =>
                /\ target_names(context) = <<"a", "b">>
                /\ default_target(context) = "a"

C16_Witness ==
    /\ script = [names |-> <<"b", "a">>, marked |-> None]
    /\ target_names(context) = <<"b", "a">>
    /\ default_target(context) = "b"
    /\ last.op = "run_resolved_target"
    /\ last.result.ok
    /\ IsBuilt("a")

\* C17: build_resolved_target(name), whatever its outcome, leaves the names,
\* their order, the default target and the requested list as they were and
\* changes no target other than name; what a build of a target returns and
\* does is the same before and after any build of another target.
C17_BuildIndependence ==
    /\ last.op = "build_resolved_target" =>
            /\ last.same_registry
            /\ last.touched \subseteq {last.target}
            /\ ~last.result.ok => last.touched = {}
    /\ pc = "ready" =>
            \A n \in TargetNames : \A m \in TargetNames \ {n} :
                \A e \in BuildEnvs : \A f \in {x \in BuildEnvs : x[3].ok} :
                    LET alone == build_resolved_target(context, n, "granted", e[1], e[2], e[3])
                        other == build_resolved_target(context, m, "granted", f[1], f[2], f[3])
                        after == build_resolved_target(other.context, n, "granted",
                                                       e[1], e[2], e[3])
                    IN  /\ after.result = alone.result
                        /\ after.io = alone.io
                        /\ after.handler = alone.handler
                        /\ get_target(after.context, n) = get_target(alone.context, n)

C17_Witness ==
    /\ last.op = "build_resolved_target"
    /\ last.target = "b"
    /\ last.result.ok
    /\ last.handler
    /\ last.touched = {"b"}
    /\ Target("a").registered
    /\ Target("a").resolved_value \in HandledTypes
    /\ ~IsBuilt("a")
    /\ default_target(context) = "a"

\* C18: a failed evaluate_file, be it the creation of the environment or the
\* script that failed, has written one diagnostic to the logger and returned
\* it, and has returned no EvaluationContext; nothing is logged otherwise.
C18_EvaluationDiagnostics ==
    /\ pc = "failed" =>
            /\ diagnostic \in {"environment", "script"}
            /\ logged = 1
            /\ last = NoCall
    /\ pc # "failed" =>
            /\ diagnostic = "none"
            /\ logged = 0

\* C20: a build or run call is made only on the context of an evaluation that
\* ran to its end without error: before that, and for ever after a failure of
\* the environment or of the script, no call has been made, no handler and no
\* run entrypoint has been invoked and no target is built, also the targets
\* registered before the failing statement.
C20_EvaluateBeforeBuild ==
    /\ [](/\ last.op # "none" => (pc = "ready" /\ diagnostic = "none")
          /\ pc = "ready" => diagnostic = "none"
          /\ pc # "ready" =>
                /\ last = NoCall
                /\ \A n \in TargetNames : ~IsBuilt(n) /\ first_built[n] = NoArtifact)
    /\ [][/\ pc = "failed" => pc' = "failed"
          /\ pc' = "ready" => pc \in {"evaluating", "ready"}
          /\ last' # last => (pc = "ready" /\ pc' = "ready")]_vars

C20_Witness ==
    /\ pc = "failed"
    /\ diagnostic = "script"
    /\ Target("a").registered
    /\ Target("a").resolved_value \in HandledTypes
    /\ Target("b").registered
    /\ last = NoCall

\* what a build and the attempts made during it leave in common
ViewDiscipline ==
    /\ building.at \in Window => building.holders = 1
    /\ building.at = "idle" => building.holders = 0
    /\ building.nested.at # "none" =>
            /\ building.nested.at \in Window
            /\ ~building.nested.got_view
            /\ ~building.nested.result.ok
            /\ ~building.nested.handler
            /\ ~building.nested.changed
    /\ building.holders \in {0, 1}
    /\ building.at \in Window \ {"held"} => ~IsBuilt(building.target)

\* a second build_resolved_target made while one holds its view is refused the
\* view and fails before anything is looked up, created, built or changed,
\* with the error of line 112 or by the panic of the cell
SecondViewFails ==
    /\ ViewDiscipline
    /\ building.nested.at # "none" =>
            building.nested.result \in {Err("unable to obtain mutable context"),
                                        Err("panic: already borrowed")}

C21_HandlerFailureNotCached ==
    LET t == last.target IN
    /\ (/\ last.op = "build_resolved_target"
        /\ \/ last.handler /\ ~last.result.ok
           \/ last.result.err = "object isn't mutable") =>
            /\ last.result \in {Err("build failed"), Err("object isn't mutable")}
            /\ last.handler => last.result = Err("build failed")
            /\ last.io = "ok"
            /\ last.touched = {}
            /\ ~IsBuilt(t)
            /\ Target(t).resolved_value \in HandledTypes
            /\ \A a \in Artifacts :
                    LET b == build_resolved_target(context, t, "granted", TRUE, "ok", Ok(a))
                    IN  /\ b.handler
                        /\ b.result = Ok(a)
                        /\ get_target(b.context, t).built_target = a
            /\ LET b == build_resolved_target(context, t, "granted", TRUE, "ok",
                                              Err("build failed"))
               IN  b.handler /\ b.result = Err("build failed") /\ b.context = context
    /\ \A n \in TargetNames : IsBuilt(n) => Target(n).built_target = first_built[n]
    /\ (last.op = "build_resolved_target" /\ last.touched # {}) =>
            /\ last.handler
            /\ last.result = Ok(Target(t).built_target)

C21_Witness ==
    /\ last.op = "build_resolved_target"
    /\ last.handler
    /\ last.result = Err("build failed")
    /\ ~IsBuilt(last.target)
    /\ Target(last.target).resolved_value = "PythonExecutable"
    /\ \E n \in TargetNames : IsBuilt(n)

\* errors of a build that was refused its view of the context
ViewErrors == {"unable to obtain mutable context", "panic: already borrowed"}

\* C22: run_target(Some(t)) builds and runs t, whatever the default target and
\* the requested list are; run_target(None) builds and runs default_target();
\* the call does to its target what run_resolved_target does to it.
\* run_target(None) without default target fails with "unable to determine
\* target to run", builds and runs nothing and changes no target.
C22_RunTargetSelection ==
    last.op = "run_target" =>
        LET t == IF last.target # None THEN last.target ELSE default_target(context)
        IN  IF t = None
            THEN /\ last.result = Err("unable to determine target to run")
                 /\ ~last.handler /\ last.io = "none" /\ last.ran = "none"
                 /\ last.touched = {} /\ last.same_registry
            ELSE /\ last.touched \subseteq {t}
                 /\ last.build.err \notin ViewErrors
                 /\ ~Target(t).registered => last.result = Err("target is not registered")
                 /\ last.was_built => last.build = Ok(Target(t).built_target)
                 /\ last.build.ok =>
                        /\ Target(t).built_target = last.build.art
                        /\ last.build.art.run_mode = "Path" => last.ran \in {"ok", "failed"}
                        /\ last.build.art.run_mode = "None" =>
                                last.result = Err("not runnable")
                 /\ ~last.build.ok => last.result = last.build

\* the same, where the build was granted its view: the target selected is the
\* one named, else the default, never one taken from the requested list
RunTargetSelectsTarget ==
    last.op = "run_target" =>
        LET t == IF last.target # None THEN last.target ELSE default_target(context)
        IN  IF t = None
            THEN /\ last.result = Err("unable to determine target to run")
                 /\ ~last.handler /\ last.io = "none" /\ last.ran = "none"
                 /\ last.touched = {} /\ last.same_registry
            ELSE /\ last.touched \subseteq {t}
                 /\ last.build.err \notin ViewErrors =>
                        /\ ~Target(t).registered =>
                                last.result = Err("target is not registered")
                        /\ last.was_built => last.build = Ok(Target(t).built_target)
                        /\ last.build.ok => Target(t).built_target = last.build.art
                 /\ last.build.err \in ViewErrors =>
                        /\ last.result = last.build
                        /\ last.touched = {} /\ ~last.handler /\ last.ran = "none"

\* C23: resolve_sys_argv() returns None exactly when interpreter_config.argv
\* is set; when it returns Some(v), resolve_sys_argvb() returns v; the queries
\* leave the builder as it is, and a query made again, the process arguments
\* being the same, returns what it returned before.
C23_ArgvQueriesAgree ==
    /\ [](/\ sys_argv.argv.asked => (sys_argv.argv.value = Nothing) = LowLevelArgv.some
          /\ (sys_argv.argv.asked /\ sys_argv.argvb.asked /\ sys_argv.argv.value.some) =>
                sys_argv.argvb.value = sys_argv.argv.value.v
          /\ sys_argv.repeatable)
    /\ [][cfg' = cfg]_vars

C23_Witness ==
    /\ ~LowLevelArgv.some
    /\ BuilderArgv = Some(<<"b", "a">>)
    /\ sys_argv.argv = [asked |-> TRUE, value |-> Some(<<"b", "a">>)]
    /\ sys_argv.argvb = [asked |-> TRUE, value |-> <<"b", "a">>]
    /\ sys_argv.repeated
    /\ sys_argv.repeatable

====
